---- MODULE Spec2Model ----
(***************************************************************************)
(* Verification model of the spaceflight control playground:               *)
(*   - main/main_orbit_2d_polar.py : multiple-shooting transcription of    *)
(*     the ascent-to-orbit OCP and the single call into the NLP solver;    *)
(*   - models/liftoff_model/liftoff_model.py : liftoff dynamics and its    *)
(*     self-test forward simulation;                                       *)
(*   - utils/orbit_animator.py : the animator's constructor and callbacks. *)
(*                                                                         *)
(* Real numbers are carried on a finite fixed-point grid: every arithmetic *)
(* result is reduced by Wrap into -ValueRange .. ValueRange-1.  Times are  *)
(* counted in tenths of a second, the orbit script's controls in 1/10000.  *)
(* CasADi expressions are carried as records naming their operands.        *)
(***************************************************************************)
EXTENDS Integers, Sequences, FiniteSets, TLC

VARIABLES
    pc,           \* position of main_orbit_2d_polar.py
    params,       \* the orbit_2d_polar_model instance (spacecraft)
    Fsteps,       \* step sizes of the RK4 steps composed into F, in order
    Lsteps,       \* step sizes of the RK4 steps composed into L, in order
    xs,           \* forward-simulation table, rows 0..N
    simK,         \* loop counter of the forward simulation
    simSteps,     \* integrator steps executed by the forward simulation
    simTime,      \* time covered by the forward simulation
    k,            \* loop counter of the NLP assembly
    Xk,           \* current start state of the NLP assembly (symbolic)
    Xk_end,       \* integrated end state of the current interval (symbolic)
    w, w0, lbw, ubw,   \* decision vector, initial guess, bounds
    J,            \* cost: the stage-cost terms added so far
    g, lbg, ubg,  \* constraint vector and its bounds
    nlpSteps,     \* integrator steps contained in the NLP's F applications
    nlpTime,      \* time covered by the NLP's F applications
    solverCalls,  \* number of invocations of the solver
    solverArgs,   \* what the solver was handed
    solverStatus, \* outcome reported by the solver
    lo,           \* liftoff self-test state (a record)
    an            \* orbit_animator state (a record)

orbitVars == <<pc, params, Fsteps, Lsteps, xs, simK, simSteps, simTime, k, Xk,
               Xk_end, w, w0, lbw, ubw, J, g, lbg, ubg, nlpSteps, nlpTime,
               solverCalls, solverArgs, solverStatus>>
vars == <<orbitVars, lo, an>>

----------------------------------------------------------------------------
(* Bounds of the model *)

\* half width of the fixed-point grid
ValueRange == 256
\* resolution of the grid for dimensionless quantities and angles: the value 1
Unit == 100
\* largest wind force of a simulated scenario
MaxWind == 1
\* largest sample number and largest coordinate of an animated trajectory
MaxFrames == 3
MaxCoord == 1
\* largest gravity / thrust-gain parameter of the orbit model instance
MaxParam == 2

----------------------------------------------------------------------------
(* Script constants of main_orbit_2d_polar.py *)

\* T = 600.0 s, in tenths of a second
T == 6000
N == 100
DT == T \div N
nn == 10
h == DT \div nn
altitude_T == 20
\* 10**6 * sqrt(mu / (R + 10**3 * altitude_T)**3), a value of the grid
angVel_T == 7
n_r_stop == 60
n_theta_stop == 85
\* spacecraft.nx, spacecraft.nu
nx == 5
nu == 2

----------------------------------------------------------------------------
(* Fixed-point arithmetic *)

\* reduction of a value to the grid
Wrap(v) == ((v + ValueRange) % (2 * ValueRange)) - ValueRange

\* a + (c * b) / d
VAxpy(a, c, d, b) == [i \in DOMAIN a |-> Wrap(a[i] + ((c * b[i]) \div d))]

----------------------------------------------------------------------------
(* orbit_2d_polar_model: not part of the sources at hand; modelled as a    *)
(* planar point mass in polar coordinates (altitude, radial velocity,      *)
(* angle, angular velocity, mass).                                         *)

dynamics_scaled(p, x, u) ==
    LET ur == u[1] \div 1000
        ut == u[2] \div 1000
    IN  << Wrap(x[2]),
           Wrap(p.gain * ur - p.grav + x[4]),
           Wrap(x[4]),
           Wrap(p.gain * ut - x[2]),
           Wrap(0 - (ur * ur + ut * ut)) >>

----------------------------------------------------------------------------
(* models/liftoff_model/liftoff_model.py *)

\* liftoff_model.__init__: forces in kN, masses in t, g rounded to the grid
liftoff_model ==
    [ g |-> 10, L |-> 20, l |-> 10, maxThrust |-> 300, m |-> 20, I |-> 1,
      nx |-> 6, nd |-> 1, nu |-> 2, x0 |-> <<0, 0, 0, 0, 0, 0>> ]

\* sin and cos on the grid (angles in 1/Unit rad): sin(0) = 0, cos(0) = 1
Sin(a) == Wrap(a)
Cos(a) == Wrap(Unit - ((a * a) \div (2 * Unit)))

\* thruster force F_T = T * maxThrust * (cm*sa - sm*ca, cm*ca + sm*sa)
ThrustForce(x, u) ==
    LET sa == Sin(x[5])
        ca == Cos(x[5])
        sm == Sin(u[2])
        cm == Cos(u[2])
        s  == liftoff_model
    IN  << Wrap((u[1] * s.maxThrust * ((cm * sa - sm * ca) \div Unit)) \div (Unit * Unit)),
           Wrap((u[1] * s.maxThrust * ((cm * ca + sm * sa) \div Unit)) \div (Unit * Unit)) >>

\* gravitational force F_G
GravForce == <<0, 0 - liftoff_model.m * liftoff_model.g>>

\* fault variant: the lateral thruster force enters the torque
TorqueWithGimbal(x, u) ==
    Wrap((liftoff_model.L * u[3] * Cos(x[5])) \div Unit
         + (liftoff_model.l * GravForce[2] * Sin(x[5])) \div Unit
         - liftoff_model.L * ThrustForce(x, <<u[1], u[2]>>)[1])
\* torque around base: L * F_W * ca + l * F_G[1] * sa
Torque(x, u) ==
    Wrap((liftoff_model.L * u[3] * Cos(x[5])) \div Unit
         + (liftoff_model.l * GravForce[2] * Sin(x[5])) \div Unit)

\* liftoff_model.dynamics(x, u), u = (thrust, gimbal angle, wind force)
dynamics(x, u) ==
    LET F_T == ThrustForce(x, u)
        F_W == u[3]
        xAcc == (F_T[1] + F_W) \div liftoff_model.m
        yAcc == (F_T[2] + GravForce[2]) \div liftoff_model.m
        angAcc == Torque(x, u) \div liftoff_model.I
    IN  << Wrap(x[3]), Wrap(x[4]), Wrap(xAcc), Wrap(yAcc), Wrap(x[6]), Wrap(angAcc) >>

----------------------------------------------------------------------------
(* integrators.rk4step: not part of the sources at hand; modelled as the   *)
(* classical Runge-Kutta step.                                             *)

\* the CasADi Function f of a script: the dynamics of its spacecraft
f(script, x, u) ==
    IF script = "liftoff" THEN dynamics(x, u) ELSE dynamics_scaled(params, x, u)

\* one classical RK4 step of size hh (in tenths of a second) of xdot = f(x, u)
rk4step_ode(script, x, u, hh) ==
    LET k1 == f(script, x, u)
        k2 == f(script, VAxpy(x, hh, 2 * 10, k1), u)
        k3 == f(script, VAxpy(x, hh, 2 * 10, k2), u)
        k4 == f(script, VAxpy(x, hh, 10, k3), u)
        s  == [i \in DOMAIN x |-> k1[i] + 2 * k2[i] + 2 * k3[i] + k4[i]]
    IN  VAxpy(x, hh, 6 * 10, s)

\* the CasADi Function built from a chain of RK4 steps, evaluated at (x, u)
RECURSIVE Integrate(_, _, _, _)
Integrate(script, steps, x, u) ==
    IF steps = <<>> THEN x
    ELSE Integrate(script, Tail(steps), rk4step_ode(script, x, u, Head(steps)), u)

RECURSIVE SumSeq(_)
SumSeq(s) == IF s = <<>> THEN 0 ELSE Head(s) + SumSeq(Tail(s))

\* F(x, u) of the orbit script, for the integrator chain built so far
F(x, u) == Integrate("orbit", Fsteps, x, u)

\* F(x, u) of the liftoff self-test
LiftoffF(steps, x, u) == Integrate("liftoff", steps, x, u)

----------------------------------------------------------------------------
(* Bounds and symbolic expressions of the NLP *)

Fin(v) == [inf |-> 0, v |-> v]
NegInf == [inf |-> -1, v |-> 0]
PosInf == [inf |-> 1, v |-> 0]
Within(lb, v, ub) ==
    /\ (lb.inf = -1 \/ (lb.inf = 0 /\ lb.v <= v))
    /\ (ub.inf = 1 \/ (ub.inf = 0 /\ v <= ub.v))

\* entries of w
USym(kk, i) == [s |-> "U", k |-> kk, i |-> i]
XSym(kk, i) == [s |-> "X", k |-> kk, i |-> i]
\* a state vector: the numeric constant xs_init[0,:] or the MX symbol X_kk
XInit == [s |-> "xs_init0", k |-> 0]
XVar(kk) == [s |-> "X", k |-> kk]
\* entries of g
Circle(kk) == [c |-> "circle", x |-> XInit, u |-> kk, nxt |-> 0, i |-> 0]
Defect(xe, kk, i) == [c |-> "defect", x |-> xe.x, u |-> xe.u, nxt |-> kk, i |-> i]
EndComp(xe, i) == [c |-> "end", x |-> xe.x, u |-> xe.u, nxt |-> 0, i |-> i]

us_init(kk) == << IF kk < n_r_stop THEN 1075 ELSE 0,
                  IF kk < n_theta_stop THEN 2000 ELSE 0 >>

Zeros(n) == [i \in 1..n |-> 0]

----------------------------------------------------------------------------
(* main_orbit_2d_polar.py *)

OrbitParams ==
    [ x0_scaled : {<<0, 0, 0, 0, 3>>, <<1, 0, 0, 1, 3>>},
      gain : 1..MaxParam, grav : 0..MaxParam, me : {1}, m0 : {3} ]

OrbitIdle ==
    /\ pc = "off" /\ params = [x0_scaled |-> Zeros(nx), gain |-> 0, grav |-> 0, me |-> 0, m0 |-> 0]
    /\ Fsteps = <<>> /\ Lsteps = <<>> /\ xs = <<>> /\ simK = 0
    /\ simSteps = 0 /\ simTime = 0 /\ k = 0 /\ Xk = XInit
    /\ Xk_end = [x |-> XInit, u |-> 0]
    /\ w = <<>> /\ w0 = <<>> /\ lbw = <<>> /\ ubw = <<>> /\ J = <<>>
    /\ g = <<>> /\ lbg = <<>> /\ ubg = <<>>
    /\ nlpSteps = 0 /\ nlpTime = 0
    /\ solverCalls = 0 /\ solverArgs = <<>> /\ solverStatus = "none"

LiftoffIdle == lo = [pc |-> "off"]
AnimatorIdle == an = [pc |-> "off"]

OrbitInit ==
    /\ pc = "buildF" /\ params \in OrbitParams
    /\ Fsteps = <<>> /\ Lsteps = <<>> /\ xs = <<>> /\ simK = 0
    /\ simSteps = 0 /\ simTime = 0 /\ k = 0 /\ Xk = XInit
    /\ Xk_end = [x |-> XInit, u |-> 0]
    /\ w = <<>> /\ w0 = <<>> /\ lbw = <<>> /\ ubw = <<>> /\ J = <<>>
    /\ g = <<>> /\ lbg = <<>> /\ ubg = <<>>
    /\ nlpSteps = 0 /\ nlpTime = 0
    /\ solverCalls = 0 /\ solverArgs = <<>> /\ solverStatus = "none"
    /\ LiftoffIdle /\ AnimatorIdle

\* for k in range(nn): Xk = rk4step_ode(f, Xk, u, h)
\* fault variant: range(nn + 1)
ChainLengthOneMore == nn + 1
ChainLength == nn
StepSize == h
BuildF ==
    /\ pc = "buildF"
    /\ Fsteps' = Append(Fsteps, StepSize)
    /\ pc' = IF Len(Fsteps') = ChainLength THEN "buildL" ELSE "buildF"
    /\ UNCHANGED <<params, Lsteps, xs, simK, simSteps, simTime, k, Xk, Xk_end,
                   w, w0, lbw, ubw, J, g, lbg, ubg, nlpSteps, nlpTime,
                   solverCalls, solverArgs, solverStatus, lo, an>>

\* for k in range(nn): Lk = rk4step_L(l, Lk, x, u, h)
BuildL ==
    /\ pc = "buildL"
    /\ Lsteps' = Append(Lsteps, h)
    /\ pc' = IF Len(Lsteps') = nn THEN "guess" ELSE "buildL"
    /\ UNCHANGED <<params, Fsteps, xs, simK, simSteps, simTime, k, Xk, Xk_end,
                   w, w0, lbw, ubw, J, g, lbg, ubg, nlpSteps, nlpTime,
                   solverCalls, solverArgs, solverStatus, lo, an>>

\* xs = DM.zeros((N+1, nx)); xs[0,:] = x0_scaled
InitGuess ==
    /\ pc = "guess"
    /\ xs' = [j \in 0..N |-> IF j = 0 THEN params.x0_scaled ELSE Zeros(nx)]
    /\ simK' = 0
    /\ pc' = "simulate"
    /\ UNCHANGED <<params, Fsteps, Lsteps, simSteps, simTime, k, Xk, Xk_end,
                   w, w0, lbw, ubw, J, g, lbg, ubg, nlpSteps, nlpTime,
                   solverCalls, solverArgs, solverStatus, lo, an>>

\* for k in range(N): xs[k+1,:] = F(xs[k,:], us_init[k,:])
SimStep ==
    /\ pc = "simulate"
    /\ xs' = [xs EXCEPT ![simK + 1] = F(xs[simK], us_init(simK))]
    /\ simK' = simK + 1
    /\ simSteps' = simSteps + Len(Fsteps)
    /\ simTime' = simTime + SumSeq(Fsteps)
    /\ pc' = IF simK' = N THEN "nlp" ELSE "simulate"
    /\ UNCHANGED <<params, Fsteps, Lsteps, k, Xk, Xk_end,
                   w, w0, lbw, ubw, J, g, lbg, ubg, nlpSteps, nlpTime,
                   solverCalls, solverArgs, solverStatus, lo, an>>

\* xs_init = xs.full(), row j
xs_init(j) == xs[j]

\* the body of the loop "for k in range(N)" that formulates the NLP
\* fault variants: xs_init[k,:] as guess of X_{k+1}; a state bound missing;
\* the continuity constraint written before the new state symbol is made
StageGuessStartState(kk) == us_init(kk) \o xs_init(kk)
StageLowerNoAltitude(kk) == <<NegInf, NegInf>> \o <<NegInf, NegInf, NegInf, Fin(params.me)>>
StageConsOnOldState(kk) ==
    <<Circle(kk)>> \o [i \in 1..nx |-> Defect([x |-> Xk, u |-> kk], kk, i)]
StageVars(kk) == [i \in 1..nu |-> USym(kk, i)] \o [i \in 1..nx |-> XSym(kk + 1, i)]
StageGuess(kk) == us_init(kk) \o xs_init(kk + 1)
StageLower(kk) == <<NegInf, NegInf>> \o <<Fin(0), NegInf, NegInf, NegInf, Fin(params.me)>>
StageUpper(kk) == <<PosInf, PosInf>> \o <<PosInf, PosInf, PosInf, PosInf, Fin(params.m0)>>
StageEnd(kk) == [x |-> Xk, u |-> kk]
StageCons(kk) == <<Circle(kk)>> \o [i \in 1..nx |-> Defect(StageEnd(kk), kk + 1, i)]
StageConsLower(kk) == <<Fin(0)>> \o [i \in 1..nx |-> Fin(0)]
StageConsUpper(kk) == <<Fin(1)>> \o [i \in 1..nx |-> Fin(0)]

Stage ==
    /\ pc = "nlp"
    /\ w' = w \o StageVars(k)
    /\ lbw' = lbw \o StageLower(k)
    /\ ubw' = ubw \o StageUpper(k)
    /\ w0' = w0 \o StageGuess(k)
    /\ Xk_end' = StageEnd(k)
    /\ J' = Append(J, [x |-> Xk, u |-> k])
    /\ Xk' = XVar(k + 1)
    /\ g' = g \o StageCons(k)
    /\ lbg' = lbg \o StageConsLower(k)
    /\ ubg' = ubg \o StageConsUpper(k)
    /\ nlpSteps' = nlpSteps + Len(Fsteps)
    /\ nlpTime' = nlpTime + SumSeq(Fsteps)
    /\ k' = k + 1
    /\ pc' = IF k' = N THEN "terminal" ELSE "nlp"
    /\ UNCHANGED <<params, Fsteps, Lsteps, xs, simK, simSteps, simTime,
                   solverCalls, solverArgs, solverStatus, lo, an>>

\* terminal constraints on altitude, radial velocity and angular velocity
\* fault variant: third terminal constraint on the angle, Xk_end[2]
TerminalConsOnAngle == <<EndComp(Xk_end, 1), EndComp(Xk_end, 2), EndComp(Xk_end, 3)>>
TerminalCons == <<EndComp(Xk_end, 1), EndComp(Xk_end, 2), EndComp(Xk_end, 4)>>
TerminalBounds == <<Fin(altitude_T), Fin(0), Fin(angVel_T)>>

Terminal ==
    /\ pc = "terminal"
    /\ g' = g \o TerminalCons
    /\ lbg' = lbg \o TerminalBounds
    /\ ubg' = ubg \o TerminalBounds
    /\ pc' = "solve"
    /\ UNCHANGED <<params, Fsteps, Lsteps, xs, simK, simSteps, simTime, k, Xk,
                   Xk_end, w, w0, lbw, ubw, J, nlpSteps, nlpTime,
                   solverCalls, solverArgs, solverStatus, lo, an>>

\* solver = nlpsol('solver', 'ipopt', nlp); sol = solver(x0, lbx, ubx, lbg, ubg)
SolverOutcomes == {"Solve_Succeeded", "Infeasible_Problem_Detected",
                   "Maximum_Iterations_Exceeded"}
\* fault variant: the script loops back to the solver
AfterSolveRetry == "solve"
AfterSolve == "done"
SolverCall ==
    /\ pc = "solve"
    /\ solverCalls' = solverCalls + 1
    /\ solverArgs' = [f |-> J, x |-> w, g |-> g, x0 |-> w0,
                      lbx |-> lbw, ubx |-> ubw, lbg |-> lbg, ubg |-> ubg]
    /\ solverStatus' \in SolverOutcomes
    /\ pc' = AfterSolve
    /\ UNCHANGED <<params, Fsteps, Lsteps, xs, simK, simSteps, simTime, k, Xk,
                   Xk_end, w, w0, lbw, ubw, J, g, lbg, ubg, nlpSteps, nlpTime,
                   lo, an>>

----------------------------------------------------------------------------
(* The self-test script of liftoff_model.py.  The simulation loop is run on  *)
(* the script's controls (table us, states xs) and, beside it, on a second   *)
(* thrust and gimbal sequence with the same wind (table usB, states xsB).    *)

\* T = 600.0 s, in tenths of a second
T_liftoff == 6000
N_liftoff == 100
DT_liftoff == T_liftoff \div N_liftoff
nn_liftoff == 10
h_liftoff == DT_liftoff \div nn_liftoff

\* controls[:,0] = 0.7; controls[50:60,1] = 0.01
controls(j) == << 70, IF j >= 50 /\ j < 60 THEN 1 ELSE 0 >>
\* np.linspace(a, b, n)[j]
linspace(a, b, n, j) == a + (j * (b - a)) \div (n - 1)

LiftoffInit ==
    /\ OrbitIdle /\ AnimatorIdle
    /\ \E x0 \in {liftoff_model.x0, <<0, 0, 0, 0, 2, 0>>, <<0, 0, 1, 0, 0, 1>>} :
       \E wind \in 0..MaxWind :
       \E thrustB \in {0, 90} : \E gimbalB \in {0 - 3, 5} :
         lo = [ pc |-> "buildF", x0 |-> x0, wind |-> wind,
                thrustB |-> thrustB, gimbalB |-> gimbalB,
                Fsteps |-> <<>>, us |-> <<>>, usB |-> <<>>,
                xs |-> <<>>, xsB |-> <<>>, k |-> 0,
                writes |-> <<>>, earlyRead |-> FALSE,
                rowsUsed |-> {}, usUsed |-> {}, usApplied |-> {},
                simSteps |-> 0, simTime |-> 0, tAxis |-> <<>> ]

\* for k in range(nn): Xk = rk4step_ode(f, Xk, u, h)
LBuildF ==
    /\ lo.pc = "buildF"
    /\ LET steps == Append(lo.Fsteps, h_liftoff) IN
       lo' = [lo EXCEPT !.Fsteps = steps,
                        !.pc = IF Len(steps) = nn_liftoff THEN "controls" ELSE "buildF"]
    /\ UNCHANGED <<orbitVars, an>>

\* us = np.append(controls, wind_forces, axis=1); xdot_test = dynamics(x0, us[0,:])
LControls ==
    /\ lo.pc = "controls"
    /\ lo' = [lo EXCEPT
                !.us = [j \in 0..(N_liftoff - 1) |-> controls(j) \o <<lo.wind>>],
                !.usB = [j \in 0..(N_liftoff - 1) |-> <<lo.thrustB, lo.gimbalB, lo.wind>>],
                !.usUsed = {0},
                !.pc = "alloc"]
    /\ UNCHANGED <<orbitVars, an>>

\* xs = DM.zeros((N, nx)); xs[0,:] = x0
LAlloc ==
    /\ lo.pc = "alloc"
    /\ LET zeros == [j \in 0..(N_liftoff - 1) |-> Zeros(liftoff_model.nx)] IN
       lo' = [lo EXCEPT
                !.xs = [zeros EXCEPT ![0] = lo.x0],
                !.xsB = [zeros EXCEPT ![0] = lo.x0],
                !.writes = [j \in 0..(N_liftoff - 1) |-> IF j = 0 THEN 1 ELSE 0],
                !.rowsUsed = {0},
                !.k = 1,
                !.pc = IF 1 < N_liftoff THEN "simulate" ELSE "plot"]
    /\ UNCHANGED <<orbitVars, an>>

\* for k in range(1,N): xs[k,:] = F(xs[k-1,:], us[k-1,:])
FromRow(kk) == kk - 1
\* fault variant: us[k,:]
ControlRowSameIndex(kk) == kk
ControlRow(kk) == kk - 1
LSimStep ==
    /\ lo.pc = "simulate"
    /\ LET kk == lo.k
           src == FromRow(kk)
           ui == ControlRow(kk)
       IN  /\ src \in DOMAIN lo.xs /\ ui \in DOMAIN lo.us /\ kk \in DOMAIN lo.xs
           /\ lo' = [lo EXCEPT
                !.xs[kk] = LiftoffF(lo.Fsteps, lo.xs[src], lo.us[ui]),
                !.xsB[kk] = LiftoffF(lo.Fsteps, lo.xsB[src], lo.usB[ui]),
                !.writes[kk] = @ + 1,
                !.earlyRead = @ \/ lo.writes[src] = 0,
                !.rowsUsed = @ \cup {src, kk},
                !.usUsed = @ \cup {ui},
                !.usApplied = @ \cup {ui},
                !.simSteps = @ + Len(lo.Fsteps),
                !.simTime = @ + SumSeq(lo.Fsteps),
                !.k = kk + 1,
                !.pc = IF kk + 1 < N_liftoff THEN "simulate" ELSE "plot"]
    /\ UNCHANGED <<orbitVars, an>>

\* xs = xs.full(); tAxis = np.linspace(0, T-DT, N); plt.plot(tAxis, xs[:,i])
LPlot ==
    /\ lo.pc = "plot"
    /\ lo' = [lo EXCEPT
                !.tAxis = [j \in 0..(N_liftoff - 1) |->
                              linspace(0, T_liftoff - DT_liftoff, N_liftoff, j)],
                !.earlyRead = @ \/ \E j \in DOMAIN lo.xs : lo.writes[j] = 0,
                !.rowsUsed = @ \cup DOMAIN lo.xs,
                !.pc = "done"]
    /\ UNCHANGED <<orbitVars, an>>

----------------------------------------------------------------------------
(* utils/orbit_animator.py *)

SetMin(S) == CHOOSE m \in S : \A y \in S : m <= y
SetMax(S) == CHOOSE m \in S : \A y \in S : m >= y
Range(seq) == {seq[j] : j \in DOMAIN seq}

\* the params dictionary: horizon, sample number, coordinate flag and the
\* position trajectories (xPositions, yPositions or rhos, thetas)
AnimatorParams ==
    UNION { [ N : {n}, isCartesian : BOOLEAN,
              first : [0..(n - 1) -> 0..MaxCoord],
              second : {[j \in 0..(n - 1) |-> n - 1 - j], [j \in 0..(n - 1) |-> 0]} ]
            : n \in 2..MaxFrames }

AnimatorInit ==
    /\ OrbitIdle /\ LiftoffIdle
    /\ \E p \in AnimatorParams :
         an = [ pc |-> "new", params |-> p, attrs |-> {},
                xPositions |-> <<>>, yPositions |-> <<>>,
                xlim |-> <<0, 0>>, ylim |-> <<0, 0>>,
                trajectory |-> <<>>, frame |-> 0, saved |-> FALSE,
                err |-> "none" ]

\* orbit_animator.__init__(params)
Common == {"T", "N", "coordsAreCartesian"}
Cartesian == {"xPositions", "yPositions", "xVelocities", "yVelocities",
              "xForces", "yForces"}
margin == 2
AConstruct ==
    /\ an.pc = "new"
    /\ LET attrs == IF an.params.isCartesian THEN Common \cup Cartesian ELSE Common
           xp == IF an.params.isCartesian THEN an.params.first ELSE <<>>
           yp == IF an.params.isCartesian THEN an.params.second ELSE <<>>
       IN  IF {"xPositions", "yPositions"} \subseteq attrs
           THEN an' = [an EXCEPT
                         !.attrs = attrs \cup {"fig", "ax"},
                         !.xPositions = xp, !.yPositions = yp,
                         !.xlim = <<SetMin(Range(xp)) - margin, SetMax(Range(xp)) + margin>>,
                         !.ylim = <<SetMin(Range(yp)) - margin, SetMax(Range(yp)) + margin>>,
                         !.pc = "constructed"]
           ELSE an' = [an EXCEPT !.attrs = attrs \cup {"fig"},
                                 !.err = "AttributeError", !.pc = "raised"]
    /\ UNCHANGED <<orbitVars, lo>>

\* orbit_animator.run: FuncAnimation(frames = arange(1, N), init_func =
\* animation_init), which draws the empty trajectory line first
ARun ==
    /\ an.pc = "constructed"
    /\ an' = [an EXCEPT !.trajectory = <<<<>>, <<>>>>, !.frame = 1,
                        !.attrs = @ \cup {"trajectory"},
                        !.pc = IF 1 < an.params.N THEN "animating" ELSE "save"]
    /\ UNCHANGED <<orbitVars, lo>>

\* orbit_animator.animation_main(i)
AnimationMain ==
    /\ an.pc = "animating"
    /\ LET i == an.frame IN
       an' = [an EXCEPT
                !.trajectory = << <<an.xPositions[i], an.xPositions[i - 1]>>,
                                  <<an.yPositions[i], an.yPositions[i - 1]>> >>,
                !.frame = i + 1,
                !.pc = IF i + 1 < an.params.N THEN "animating" ELSE "save"]
    /\ UNCHANGED <<orbitVars, lo>>

\* if (saveFile): anim.save(fileName, fps); plt.show()
AShow ==
    /\ an.pc = "save"
    /\ \E saveFile \in BOOLEAN :
         an' = [an EXCEPT !.saved = saveFile, !.pc = "shown"]
    /\ UNCHANGED <<orbitVars, lo>>

Init == OrbitInit \/ LiftoffInit \/ AnimatorInit

Next ==
    \/ BuildF
    \/ BuildL
    \/ InitGuess
    \/ SimStep
    \/ Stage
    \/ Terminal
    \/ SolverCall
    \/ LBuildF
    \/ LControls
    \/ LAlloc
    \/ LSimStep
    \/ LPlot
    \/ AConstruct
    \/ ARun
    \/ AnimationMain
    \/ AShow

Spec == Init /\ [][Next]_vars

----------------------------------------------------------------------------
(* Properties of main_orbit_2d_polar.py *)

\* the start state of interval kk: xs_init[0,:] for kk = 0, else the symbol X_kk
StartOf(kk) == IF kk = 0 THEN XInit ELSE XVar(kk)
\* position in g of the i-th continuity entry of interval kk
DefectPos(kk, i) == kk * (1 + nx) + 1 + i
\* values a single quantity is tried on
Probe == {0, 1, altitude_T, angVel_T}

\* position in w of the i-th component of the state variable X_{kk+1}
StatePos(kk, i) == kk * (nu + nx) + nu + i

\* C1: for every assembled interval kk the constraint vector holds the nx
\* entries F(X_kk, U_kk) - X_{kk+1} with lower and upper bound 0, X_0 being
\* the constant xs_init[0] and X_1.. decision variables; a value of such an
\* entry lies within its bounds only if end state and next start state agree.
C1_Continuity ==
    /\ \A p \in 1..Len(w) : w[p].s \in {"U", "X"} /\ (w[p].s = "X" => w[p].k >= 1)
    /\ \A kk \in 0..(k - 1) : \A i \in 1..nx :
          LET p == DefectPos(kk, i) IN
            /\ p <= Len(g) /\ p <= Len(lbg) /\ p <= Len(ubg)
            /\ g[p] = [c |-> "defect", x |-> StartOf(kk), u |-> kk,
                       nxt |-> kk + 1, i |-> i]
            /\ lbg[p] = Fin(0) /\ ubg[p] = Fin(0)
            /\ w[StatePos(kk, i)] = XSym(kk + 1, i)
    /\ pc = "solve" =>
          \A p \in 1..Len(g) : g[p].c = "defect" =>
              \A e \in Probe : \A xn \in Probe :
                  Within(lbg[p], e - xn, ubg[p]) <=> e = xn

C1_Witness ==
    /\ pc = "solve" /\ k = N
    /\ g[DefectPos(0, 1)].x = XInit
    /\ g[DefectPos(N - 1, nx)].nxt = N

----------------------------------------------------------------------------
\* value of a symbol of w under the initial guess w0
GuessOf(sym) == w0[CHOOSE p \in 1..Len(w) : w[p] = sym]
GuessU(kk) == [i \in 1..nu |-> GuessOf(USym(kk, i))]
GuessX(xr) == IF xr = XInit THEN xs_init(0)
              ELSE [i \in 1..nx |-> GuessOf(XSym(xr.k, i))]
\* one unit of a control, squared, on the grid of the controls
CtrlUnitSq == (100 * 100) * (100 * 100)
ScaleBound(b) == [b EXCEPT !.v = b.v * CtrlUnitSq]
\* the guess as tables: controls of interval kk at kk+1, start state of
\* interval kk at kk+1, integrated end state of interval kk at kk+1
GuessControls == [j \in 1..N |-> GuessU(j - 1)] \o <<>>
GuessStates == [j \in 1..(N + 1) |-> GuessX(StartOf(j - 1))] \o <<>>
GuessEnds(uv, xv) == [j \in 1..N |-> F(xv[j], uv[j])] \o <<>>
\* entry p of g, evaluated with controls uv, states xv and interval end
\* states fe = F(xv, uv), lies within lbg[p], ubg[p]
FeasibleAt(p, uv, xv, fe) ==
    LET e == g[p] IN
    IF e.c = "circle"
    THEN Within(ScaleBound(lbg[p]),
                uv[e.u + 1][1] * uv[e.u + 1][1] + uv[e.u + 1][2] * uv[e.u + 1][2],
                ScaleBound(ubg[p]))
    ELSE LET end == IF e.x = StartOf(e.u) THEN fe[e.u + 1]
                    ELSE F(GuessX(e.x), uv[e.u + 1]) IN
         IF e.c = "defect"
         THEN Within(lbg[p], end[e.i] - xv[e.nxt + 1][e.i], ubg[p])
         ELSE Within(lbg[p], end[e.i], ubg[p])

----------------------------------------------------------------------------
\* C3: after each iteration of the assembly loop w, w0, lbw, ubw hold
\* (nu+nx) entries and g, lbg, ubg hold (1+nx) entries per finished
\* iteration; the solver is handed N*nx + N*nu variables and
\* N*(1+nx) + 3 constraints.
C3_Sizes ==
    /\ Len(w) = k * (nu + nx) /\ Len(w0) = k * (nu + nx)
    /\ Len(lbw) = k * (nu + nx) /\ Len(ubw) = k * (nu + nx)
    /\ pc \in {"nlp", "terminal"} =>
          Len(g) = k * (1 + nx) /\ Len(lbg) = k * (1 + nx) /\ Len(ubg) = k * (1 + nx)
    /\ pc \in {"solve", "done"} =>
          /\ Len(w) = N * nx + N * nu /\ Len(w0) = N * nx + N * nu
          /\ Len(g) = N * (1 + nx) + 3
          /\ Len(lbg) = N * (1 + nx) + 3 /\ Len(ubg) = N * (1 + nx) + 3
    /\ pc = "done" =>
          /\ Len(solverArgs.x) = N * nx + N * nu
          /\ Len(solverArgs.x0) = Len(solverArgs.x)
          /\ Len(solverArgs.lbx) = Len(solverArgs.x)
          /\ Len(solverArgs.ubx) = Len(solverArgs.x)
          /\ Len(solverArgs.g) = N * (1 + nx) + 3
          /\ Len(solverArgs.lbg) = Len(solverArgs.g)
          /\ Len(solverArgs.ubg) = Len(solverArgs.g)

C3_Witness == pc = "done" /\ Len(solverArgs.x) = 700 /\ Len(solverArgs.g) = 603

----------------------------------------------------------------------------
AllEqual(steps, v) == \A j \in 1..Len(steps) : steps[j] = v

\* C4: F is the chain of exactly nn RK4 steps, each of size h = DT/nn, so one
\* application advances time by DT = T/N; the forward simulation and the NLP
\* loop each apply it N times, N*nn integrator steps over the horizon T.  The
\* liftoff self-test builds its F the same way.
C4_FixedStep ==
    /\ Len(Fsteps) <= nn /\ AllEqual(Fsteps, h)
    /\ pc \notin {"off", "buildF"} =>
          Len(Fsteps) = nn /\ SumSeq(Fsteps) = DT /\ N * SumSeq(Fsteps) = T
    /\ simSteps = simK * nn /\ simTime = simK * DT
    /\ nlpSteps = k * nn /\ nlpTime = k * DT
    /\ pc \in {"nlp", "terminal", "solve", "done"} =>
          simK = N /\ simSteps = N * nn /\ simTime = T
    /\ pc \in {"solve", "done"} =>
          k = N /\ nlpSteps = N * nn /\ nlpTime = T
    /\ lo.pc # "off" =>
          /\ Len(lo.Fsteps) <= nn_liftoff /\ AllEqual(lo.Fsteps, h_liftoff)
          /\ lo.pc # "buildF" =>
                Len(lo.Fsteps) = nn_liftoff /\ SumSeq(lo.Fsteps) = DT_liftoff
          /\ lo.pc \in {"simulate", "plot", "done"} =>
                /\ lo.simSteps = (lo.k - 1) * nn_liftoff
                /\ lo.simTime = (lo.k - 1) * DT_liftoff

C4_Witness ==
    /\ pc = "solve" /\ Len(Fsteps) = 10 /\ simSteps = 1000 /\ nlpSteps = 1000
    /\ simTime = 6000 /\ nlpTime = 6000

----------------------------------------------------------------------------
NlpArrays == <<w, w0, lbw, ubw, J, g, lbg, ubg>>

C5_State ==
    /\ solverCalls <= 1
    /\ solverCalls = 1 <=> pc = "done"
    /\ solverCalls = 1 =>
          /\ simK = N /\ k = N /\ Len(J) = N
          /\ Len(g) = N * (1 + nx) + 3
          /\ \A i \in 1..3 : g[N * (1 + nx) + i].c = "end"
          /\ solverStatus \in SolverOutcomes
          /\ solverArgs = [f |-> J, x |-> w, g |-> g, x0 |-> w0,
                           lbx |-> lbw, ubx |-> ubw, lbg |-> lbg, ubg |-> ubg]
    /\ solverCalls = 0 => solverStatus = "none"

\* C5: the solver is invoked once, after the forward simulation of all N
\* intervals and after all N stages and the three terminal constraints were
\* appended; once it was invoked, whatever it reported, the NLP arrays do
\* not change and it is not invoked again.
C5_SolveOnce ==
    /\ []C5_State
    /\ [][solverCalls >= 1 => UNCHANGED <<NlpArrays, solverCalls, solverArgs>>]_vars

C5_Witness ==
    pc = "done" /\ solverCalls = 1 /\ solverStatus = "Infeasible_Problem_Detected"

----------------------------------------------------------------------------
\* positions in g of the constraints on the last interval: its continuity
\* entries and the terminal entries
LastCons == {p \in 1..Len(g) : g[p].c = "end" \/ (g[p].c = "defect" /\ g[p].nxt = N)}
ValuesNx == [1..nx -> {0, altitude_T, angVel_T}]

\* C6: the terminal constraints are written on the integrated end state of
\* the last interval, F(X_{N-1}, U_{N-1}); together with that interval's
\* continuity constraint they force X_N[0] = altitude_T, X_N[1] = 0 and
\* X_N[3] = angVel_T on every point satisfying the constraints.
C6_TerminalPinned ==
    pc = "solve" =>
        /\ \A i \in 1..nx : w[Len(w) - nx + i] = XSym(N, i)
        /\ \A p \in LastCons : g[p].x = XVar(N - 1) /\ g[p].u = N - 1
        /\ {g[p].i : p \in {q \in LastCons : g[q].c = "end"}} = {1, 2, 4}
        /\ \A e \in ValuesNx :
              (\A p \in LastCons : g[p].c = "end" => Within(lbg[p], e[g[p].i], ubg[p]))
              => \A xN \in ValuesNx :
                    (\A p \in LastCons : g[p].c = "defect" =>
                          Within(lbg[p], e[g[p].i] - xN[g[p].i], ubg[p]))
                    => /\ xN = e
                       /\ xN[1] = altitude_T /\ xN[2] = 0 /\ xN[4] = angVel_T

C6_Witness ==
    /\ pc = "solve" /\ Cardinality(LastCons) = nx + 3
    /\ \E p \in LastCons : g[p].c = "end" /\ lbg[p] = Fin(altitude_T)

----------------------------------------------------------------------------
(* Properties of the liftoff self-test *)

Rows == 0..(N_liftoff - 1)

\* C7: the state table has N rows, xs[0] = x0 and xs[k] = F(xs[k-1], us[k-1])
\* for k in 1..N-1; every row is written once and before it is read, every
\* index used lies in 0..N-1, row k belongs to time k*DT of the time axis
\* (N samples from 0 to T-DT) and the last control row is never applied.
C7_SimulationTable ==
    lo.pc \in {"simulate", "plot", "done"} =>
        /\ DOMAIN lo.xs = Rows /\ DOMAIN lo.us = Rows
        /\ lo.xs[0] = lo.x0
        /\ \A j \in Rows : lo.writes[j] = (IF j < lo.k THEN 1 ELSE 0)
        /\ ~lo.earlyRead
        /\ lo.rowsUsed \subseteq Rows /\ lo.usUsed \subseteq Rows
        /\ lo.usApplied = 0..(lo.k - 2)
        /\ (N_liftoff - 1) \notin lo.usApplied /\ (N_liftoff - 1) \notin lo.usUsed
        /\ lo.simTime = (lo.k - 1) * DT_liftoff
        /\ lo.pc \in {"plot", "done"} =>
              /\ lo.k = N_liftoff
              /\ \A j \in 1..(N_liftoff - 1) :
                    lo.xs[j] = LiftoffF(lo.Fsteps, lo.xs[j - 1], lo.us[j - 1])
        /\ lo.pc = "done" =>
              /\ DOMAIN lo.tAxis = Rows
              /\ \A j \in Rows : lo.tAxis[j] = j * DT_liftoff
              /\ lo.tAxis[0] = 0
              /\ lo.tAxis[N_liftoff - 1] = T_liftoff - DT_liftoff
              /\ lo.rowsUsed = Rows

C7_Witness ==
    /\ lo.pc = "done" /\ lo.x0 = liftoff_model.x0 /\ lo.wind = 0
    /\ lo.us[50] = <<70, 1, 0>> /\ lo.us[60] = <<70, 0, 0>>
    /\ lo.xs[99] # lo.xs[0] /\ lo.tAxis[99] = 5940

----------------------------------------------------------------------------
\* C8: the angle and angular-velocity trajectories of two simulations from
\* the same state under the same wind agree whatever thrust and gimbal each
\* applies; with no wind and zero initial angle and angular velocity both
\* stay 0 at every step, also while the gimbal is non-zero on steps 50..59.
C8_RotationIgnoresThruster ==
    lo.pc \in {"simulate", "plot", "done"} =>
        /\ \A j \in Rows :
              lo.xs[j][5] = lo.xsB[j][5] /\ lo.xs[j][6] = lo.xsB[j][6]
        /\ \A x \in {lo.xs[lo.k - 1], lo.xsB[lo.k - 1]} :
           \A t1 \in {0, 70} : \A t2 \in {0, 90} : \A g1 \in {0, 1} : \A g2 \in {0 - 3, 5} :
              LET a == dynamics(x, <<t1, g1, lo.wind>>)
                  b == dynamics(x, <<t2, g2, lo.wind>>)
              IN  a[5] = b[5] /\ a[6] = b[6]
        /\ (lo.wind = 0 /\ lo.x0[5] = 0 /\ lo.x0[6] = 0) =>
              \A j \in Rows : lo.xs[j][5] = 0 /\ lo.xs[j][6] = 0
                              /\ lo.xsB[j][5] = 0 /\ lo.xsB[j][6] = 0

\* the self-test setting past step 59: the gimbal has moved the rocket
\* sideways and the two simulations differ
C8_Witness ==
    /\ lo.pc = "done" /\ lo.x0 = liftoff_model.x0 /\ lo.wind = 0
    /\ lo.us[55][2] # 0 /\ lo.xs[60][3] # 0 /\ lo.xs[60] # lo.xsB[60]

\* a windy run: both simulations rotate, and differ in their positions
C8_WindyRun ==
    /\ lo.pc = "done" /\ lo.wind # 0 /\ lo.gimbalB # 0 /\ lo.thrustB # 70
    /\ lo.xs[2][5] # lo.x0[5] /\ lo.xs[1][6] # lo.x0[6]
    /\ lo.xs[99] # lo.xsB[99]

----------------------------------------------------------------------------
(* Properties of orbit_animator *)

\* C9: constructed on polar input, the animator holds xPositions and
\* yPositions when the figure limits are computed, and the constructor
\* completes as it does on cartesian input.
C9_PolarConstructs ==
    (an.pc \notin {"off", "new"} /\ ~an.params.isCartesian) =>
        /\ {"xPositions", "yPositions"} \subseteq an.attrs
        /\ an.err = "none"
        /\ an.pc # "raised"

====
